---- MODULE Spec2Model ----
(***************************************************************************)
(* tap-autopilot: the sync of a Singer tap (tap_autopilot/__init__.py).    *)
(*                                                                         *)
(* The program is sequential.  Its state is the STATE dictionary, the      *)
(* position of do_sync in the list of selected streams, the locals of the  *)
(* running sync_* routine and the frames of the gen_request generators it  *)
(* is pulling from.  Its environment is the Autopilot HTTP API (server)    *)
(* and the consumer of its standard output, which keeps the last STATE     *)
(* message and hands it to the next run.                                   *)
(*                                                                         *)
(* Representation.  A URL is the sequence of its path segments after       *)
(* BASE_URL.  A datetime is an integer number of microseconds; an ISO-8601 *)
(* string "%Y-%m-%dT%H:%M:%S.%fZ" is the pair <<"iso", microseconds>>.     *)
(* An updated_at of the API is an integer number of milliseconds.          *)
(* A page does not store its rows one by one: row i of a page carries the  *)
(* updated_at  page.ts[((i-1) % Len(page.ts)) + 1].                        *)
(***************************************************************************)
EXTENDS Integers, Sequences, FiniteSets, TLC

VARIABLES
    catalog,          \* args.properties['streams']: sequence of [id, selected]
    CONFIG,           \* CONFIG: [start_date]
    server,           \* the API: URL -> set of responses it may give
    observe,          \* whether metrics and the output log are being recorded
    State,            \* the STATE dictionary of do_sync
    state0,           \* the state this run was started with
    persisted,        \* the last state the output's consumer has kept
    pc,               \* position of do_sync
    selected_streams, \* do_sync: selected_streams
    si,               \* do_sync: index of the current stream in selected_streams
    remaining0,       \* do_sync: remaining_streams, as get_streams_to_sync gave it
    gens,             \* stack of gen_request generator frames, innermost last
    start,            \* sync_contacts: start
    max_updated_at,   \* sync_contacts: max_updated_at
    tries,            \* request: attempts of the current call that have failed
    err,              \* the exception that ended the run, "" if none
    trace,            \* this run's HTTP requests, each with the status it was
                      \* answered with, and output messages, in order
    runs,             \* number of runs started so far
    resumed,          \* the stream that was being synced when the last run was killed
    call              \* the function called and its arguments: main, or one of
                      \* get_url, gen_request, request called on its own

vars == <<call, catalog, CONFIG, server, observe, State, state0, persisted, pc,
          selected_streams, si, remaining0, gens, start, max_updated_at,
          tries, err, trace, runs, resumed>>

-----------------------------------------------------------------------------
(* Program constants *)

PER_PAGE == 100

\* max_tries of line 148 with one more attempt
MAX_TRIES_more == 3 + 3

MAX_TRIES == 5

(* Bounds of the model *)

MaxFetch == 3      \* logical fetches one generator may make

MaxRuns == 2       \* runs (the first, and restarts after a kill)

SmallPage == 2     \* rows of a short, non-empty page

-----------------------------------------------------------------------------
(* Values *)

NoStream == "None"            \* currently_syncing is None (or absent)
NoToken == "None"             \* no "bookmark" key
NoField == -1                 \* a row without an "updated_at" key
NoBookmark == <<"none", 0>>   \* singer.get_bookmark(...) is None
NoTime == -1                  \* updated_at = None in sync_contacts

\* the call of main, which has no endpoint, URL or params of its own
Main == [fn |-> "main", endpoint |-> "", url |-> <<>>, params |-> NoToken]

Tokens == {"b1", "b2"}
SegIds == {"s1", "s2"}

STREAMS == {"contacts", "lists", "smart_segments", "smart_segments_contacts"}

ENDPOINTS == {"contacts", "custom_fields", "lists", "smart_segments",
              "smart_segments_contacts"}

-----------------------------------------------------------------------------
(* Time *)

\* _transform_datetime(ms, UNIX_MILLISECONDS_INTEGER_DATETIME_PARSING):
\* strftime(datetime.fromtimestamp(ms / 1000.0, utc))
transform_datetime(ms) == <<"iso", ms * 1000>>

\* utils.strptime_with_tz
strptime_with_tz(s) == s[2]

\* utils.strftime
strftime(d) == <<"iso", d>>

-----------------------------------------------------------------------------
(* State dictionary *)

\* singer.get_bookmark(STATE, "contacts", "updated_at")
get_bookmark(st) == st.bookmark

\* singer.write_bookmark(STATE, "contacts", "updated_at", val)
write_bookmark(st, val) == [st EXCEPT !.bookmark = val]

\* singer.get_currently_syncing
get_currently_syncing(st) == st.currently_syncing

\* singer.set_currently_syncing that leaves the marker as it is
set_currently_syncing_lost(st, id) == st

\* singer.set_currently_syncing that drops the bookmarks
set_currently_syncing_wipe(st, id) == [currently_syncing |-> id, bookmark |-> NoBookmark]

\* singer.set_currently_syncing that clears the marker whatever it is given
set_currently_syncing_none(st, id) == [st EXCEPT !.currently_syncing = NoStream]

\* singer.set_currently_syncing
set_currently_syncing(st, id) == [st EXCEPT !.currently_syncing = id]

\* get_start that starts from the beginning of time
get_start_epoch(st) == <<"iso", 0>>

\* get_start without the bookmark
get_start_config(st) == CONFIG.start_date

get_start(st) ==
    IF get_bookmark(st) = NoBookmark THEN CONFIG.start_date ELSE get_bookmark(st)

-----------------------------------------------------------------------------
(* URLs *)

\* the leading \w+ of a path segment ("" when it has none)
WordPrefix(seg) == IF seg \in {"", "-"} THEN "" ELSE seg

\* "segment" in seg
HasSegment(seg) == seg \in {"smart_segments", "smart_segments_contacts"}

\* 'contact' in source
HasContact(source) == source \in {"contacts", "smart_segments_contacts"}

\* 'smart_segments' in source
HasSmartSegments(source) == source \in {"smart_segments", "smart_segments_contacts"}

\* the segment the regex  BASE_URL + r'.*/(\w+)'  ends in: the last one that
\* starts with a word character; 0 when the regex does not match
MatchIdx(url) ==
    LET I == {i \in 1..Len(url) : WordPrefix(url[i]) # ""}
    IN  IF I = {} THEN 0 ELSE CHOOSE i \in I : \A j \in I : j <= i

\* parse_source_from_url that takes every URL
ParseFails_never(url) == FALSE

ParseFails(url) == MatchIdx(url) = 0

\* ("" stands for no result: the regex does not match and ValueError is raised)
parse_source_from_url(url) ==
    LET i == MatchIdx(url)
        group1 == IF i = 0 THEN "" ELSE WordPrefix(url[i])
    IN  IF group1 = "contacts" /\ (\E j \in 1..i : HasSegment(url[j]))
        THEN "smart_segments_contacts"
        ELSE group1

parse_key_from_source(source) ==
    IF HasContact(source) THEN "contacts"
    ELSE IF HasSmartSegments(source) THEN "segments"
    ELSE source

\* get_url raises ValueError for these
InvalidEndpoint(endpoint) == endpoint \notin ENDPOINTS

\* get_url that formats every URL with the same segment
get_url_fixed(endpoint, segment_id) ==
    CASE endpoint = "contacts" -> <<"contacts">>
      [] endpoint = "custom_fields" -> <<"contacts", "custom_fields">>
      [] endpoint = "lists" -> <<"lists">>
      [] endpoint = "smart_segments" -> <<"smart_segments">>
      [] endpoint = "smart_segments_contacts" -> <<"smart_segments", "s1", "contacts">>

\* get_url, for the endpoints of ENDPOINTS
get_url(endpoint, segment_id) ==
    CASE endpoint = "contacts" -> <<"contacts">>
      [] endpoint = "custom_fields" -> <<"contacts", "custom_fields">>
      [] endpoint = "lists" -> <<"lists">>
      [] endpoint = "smart_segments" -> <<"smart_segments">>
      [] endpoint = "smart_segments_contacts" -> <<"smart_segments", segment_id, "contacts">>

\* request, lines 164-165: the URL that is sent
RequestUrl(url, params) ==
    IF params # NoToken THEN Append(url, params) ELSE url

-----------------------------------------------------------------------------
(* The API *)

ContactUrls == {<<"contacts">>} \cup {<<"contacts", b>> : b \in Tokens}

SegContactUrls ==
    {<<"smart_segments", s, "contacts">> : s \in SegIds}
    \cup {<<"smart_segments", s, "contacts", b>> : s \in SegIds, b \in Tokens}

ReqUrls == ContactUrls \cup {<<"lists">>, <<"smart_segments">>} \cup SegContactUrls

\* the key under which the API puts the rows of a resource (docstrings of sync_*)
KeyOf(u) ==
    IF u = <<"lists">> THEN "lists"
    ELSE IF u = <<"smart_segments">> THEN "segments"
    ELSE "contacts"

\* which page of which resource a row comes from
TagOf(u) ==
    IF u \in ContactUrls THEN (IF Len(u) = 1 THEN "c" ELSE u[2])
    ELSE IF u \in SegContactUrls THEN u[2]
    ELSE u[1]

\* the continuation token the API hands out on the page at u
NextToken(u) == IF u[Len(u)] = "b1" THEN "b2" ELSE "b1"

\* a shape is what the API may answer, whatever the URL:
\* a status, a number of rows, whether a token comes with it, the rows' updated_at
Shape(status, n, more, ts) == [status |-> status, n |-> n, more |-> more, ts |-> ts]

Response(u, sh) ==
    [status |-> sh.status, key |-> KeyOf(u), tag |-> TagOf(u), n |-> sh.n,
     bookmark |-> IF sh.more THEN NextToken(u) ELSE NoToken, ts |-> sh.ts]

NoData == Response(<<"lists">>, Shape(0, 0, FALSE, <<NoField>>))

\* the API, given the shapes it may answer with for each kind of resource
Api(contacts, lists, segments, members) ==
    [u \in ReqUrls |->
        {Response(u, sh) : sh \in
            IF u \in ContactUrls THEN contacts
            ELSE IF u = <<"lists">> THEN lists
            ELSE IF u = <<"smart_segments">> THEN segments
            ELSE members}]

\* a URL the API does not know is answered with 404
Answers(u) ==
    IF u \in DOMAIN server THEN server[u]
    ELSE {[status |-> 404, key |-> "", tag |-> "", n |-> 0, bookmark |-> NoToken,
           ts |-> <<NoField>>]}

\* row i of a page
Row(page, i) ==
    [tag |-> page.tag, id |-> i,
     updated_at |-> page.ts[((i - 1) % Len(page.ts)) + 1],
     segment_id |-> IF i % 2 = 1 THEN "s1" ELSE "s2"]

\* resp.raise_for_status() raises
IsHttpError(r) == r.status >= 400 /\ r.status < 600

\* SESSION.send raises (no response)
IsNetworkError(r) == r.status < 0

\* giveup that never gives up
client_error_none(r) == FALSE

client_error(r) == ~IsNetworkError(r) /\ r.status # 408 /\ 400 <= r.status /\ r.status < 500

-----------------------------------------------------------------------------
(* gen_request *)

\* the generator object gen_request(endpoint) returns: nothing has run yet
NewGen(endpoint) ==
    [endpoint |-> endpoint, params |-> NoToken, st |-> "new",
     source |-> "", source_key |-> "", data |-> NoData, idx |-> 1,
     cur |-> Row(NoData, 1), counter |-> 0, nfetch |-> 0,
     pages |-> <<>>, yielded |-> <<>>]

Top == gens[Len(gens)]

SetTop(f) == [gens EXCEPT ![Len(gens)] = f]

\* lines 190-193
GenEnter(f) ==
    IF f.st = "new"
    THEN [f EXCEPT !.source = parse_source_from_url(f.endpoint),
                   !.source_key = parse_key_from_source(parse_source_from_url(f.endpoint)),
                   !.st = "request"]
    ELSE [f EXCEPT !.st = "request"]

\* lines 198-203 without the else of line 202: a page without a token leaves params
NextParams_keep(source, params, data) ==
    IF HasContact(source) /\ data.bookmark # NoToken THEN data.bookmark ELSE params

\* lines 198-203: params after a page
NextParams(source, params, data) ==
    IF HasContact(source)
    THEN (IF data.bookmark # NoToken THEN data.bookmark ELSE NoToken)
    ELSE params

\* lines 197-203
GenPage(f, r) ==
    [f EXCEPT !.data = r, !.params = NextParams(f.source, f.params, r),
              !.idx = 1, !.st = "rows",
              !.nfetch = IF observe THEN @ + 1 ELSE @,
              !.pages = IF observe THEN Append(@, r) ELSE @]

\* line 209 with a token keeping the pagination going
LastPage_token(data) == data.n < PER_PAGE /\ data.bookmark = NoToken

\* line 209 with <= for <
LastPage_le(data) == data.n <= PER_PAGE

\* line 209: the page in hand ends the pagination
LastPage(data) == data.n < PER_PAGE

\* the generator, asked for its next row, has one in the page in hand
HasRow(f) == f.st = "rows" /\ f.idx <= f.data.n

\* ... or has to call request
WantsPage(f) ==
    \/ f.st \in {"new", "request"}
    \/ f.st = "rows" /\ f.idx > f.data.n /\ ~LastPage(f.data)

\* ... or is exhausted
Exhausted(f) == f.st = "rows" /\ f.idx > f.data.n /\ LastPage(f.data)

\* lines 205-207: counter.increment(); yield row
GenYield(f) ==
    [f EXCEPT !.cur = Row(f.data, f.idx), !.idx = @ + 1,
              !.counter = IF observe THEN @ + 1 ELSE @,
              !.yielded = IF observe THEN Append(@, Row(f.data, f.idx)) ELSE @]

-----------------------------------------------------------------------------
(* Output and failure *)

Emit(e) == IF observe THEN Append(trace, e) ELSE trace

\* singer.write_state(st), alone in its step
write_state(st) ==
    /\ persisted' = st
    /\ trace' = Emit(<<"state", st>>)

\* an exception leaves do_sync
Raise(kind) ==
    /\ pc' = "failed"
    /\ err' = kind

-----------------------------------------------------------------------------
(* do_sync *)

\* dropwhile that drops the named stream as well
dropwhile_after(streams, current_stream) ==
    LET I == {i \in 1..Len(streams) : streams[i].id = current_stream}
    IN  IF I = {} THEN <<>>
        ELSE SubSeq(streams, (CHOOSE i \in I : \A j \in I : i <= j) + 1, Len(streams))

\* itertools.dropwhile(lambda x: x.get('tap_stream_id') != current_stream, streams)
dropwhile(streams, current_stream) ==
    LET I == {i \in 1..Len(streams) : streams[i].id = current_stream}
    IN  IF I = {} THEN <<>>
        ELSE SubSeq(streams, CHOOSE i \in I : \A j \in I : i <= j, Len(streams))

\* get_streams_to_sync; <<>> stands for the exception of line 356
get_streams_to_sync(streams, st) ==
    IF get_currently_syncing(st) # NoStream
    THEN dropwhile(streams, get_currently_syncing(st))
    ELSE streams

IsSelected(stream) == stream.selected

get_selected_streams(remaining_streams) == SelectSeq(remaining_streams, IsSelected)

\* lines 389-397
DoSyncStart ==
    /\ pc = "do_sync"
    /\ LET remaining_streams == get_streams_to_sync(catalog, State)
           selected == get_selected_streams(remaining_streams)
       IN  /\ remaining0' = remaining_streams
           /\ IF remaining_streams = <<>>
              THEN /\ Raise("UnknownStream")
                   /\ UNCHANGED <<selected_streams, si>>
              ELSE IF Len(selected) < 1
              THEN /\ pc' = "done"
                   /\ UNCHANGED <<err, selected_streams, si>>
              ELSE /\ pc' = "loop"
                   /\ selected_streams' = selected
                   /\ si' = 1
                   /\ UNCHANGED err
    /\ UNCHANGED <<call, catalog, CONFIG, server, observe, State, state0, persisted, gens,
                   start, max_updated_at, tries, trace, runs, resumed>>

\* lines 399-402: the next stream is marked and the state written
DoSyncMark ==
    /\ pc = "loop"
    /\ si <= Len(selected_streams)
    /\ State' = set_currently_syncing(State, selected_streams[si].id)
    /\ write_state(State')
    /\ pc' = "sync"
    /\ UNCHANGED <<call, catalog, CONFIG, server, observe, state0, selected_streams, si,
                   remaining0, gens, start, max_updated_at, tries, err, runs, resumed>>

\* lines 406-408
DoSyncFinal ==
    /\ pc = "loop"
    /\ si > Len(selected_streams)
    /\ State' = set_currently_syncing(State, NoStream)
    /\ write_state(State')
    /\ pc' = "done"
    /\ UNCHANGED <<call, catalog, CONFIG, server, observe, state0, selected_streams, si,
                   remaining0, gens, start, max_updated_at, tries, err, runs, resumed>>

\* sync(state, stream) returns to the loop of do_sync (the generator it has
\* exhausted stays as it is until the next one is created)
Return ==
    /\ pc' = "loop"
    /\ si' = si + 1

-----------------------------------------------------------------------------
(* sync and the sync_* routines *)

\* sync, lines 374-385, for a stream none of the branches knows
SyncOther ==
    /\ pc = "sync"
    /\ selected_streams[si].id \notin STREAMS
    /\ Return
    /\ UNCHANGED <<call, catalog, CONFIG, server, observe, State, state0, persisted,
                   selected_streams, remaining0, gens, start, max_updated_at, tries,
                   err, trace, runs, resumed>>

\* sync_contacts, lines 229-240, up to the creation of the generator
SyncContactsBegin ==
    /\ pc = "sync"
    /\ selected_streams[si].id = "contacts"
    /\ trace' = Emit(<<"schema", "contacts">>)
    /\ start' = strptime_with_tz(get_start(State))
    /\ max_updated_at' = start'
    /\ gens' = <<NewGen(get_url("contacts", ""))>>
    /\ pc' = "contacts"
    /\ UNCHANGED <<call, catalog, CONFIG, server, observe, State, state0, persisted,
                   selected_streams, si, remaining0, tries, err, runs, resumed>>

\* sync_lists, sync_smart_segments, sync_smart_segment_contacts up to the
\* creation of the (outer) generator: lines 280-282, 307-309, 323-328
FullRefreshBegin(id, endpoint) ==
    /\ pc = "sync"
    /\ selected_streams[si].id = id
    /\ trace' = Emit(<<"schema", id>>)
    /\ gens' = <<NewGen(get_url(endpoint, ""))>>
    /\ pc' = id
    /\ UNCHANGED <<call, catalog, CONFIG, server, observe, State, state0, persisted,
                   selected_streams, si, remaining0, start, max_updated_at, tries,
                   err, runs, resumed>>

SyncListsBegin == FullRefreshBegin("lists", "lists")

SyncSmartSegmentsBegin == FullRefreshBegin("smart_segments", "smart_segments")

SyncSmartSegmentContactsBegin == FullRefreshBegin("smart_segments_contacts", "smart_segments")

\* one HTTP attempt of request (lines 159-174) under backoff.on_exception (lines
\* 146-150), made by the innermost generator (line 197); the first attempt of a
\* generator runs lines 190-193 before it, and every attempt maps the URL it is
\* about to send (line 170)
GenRequest ==
    /\ pc \in STREAMS \cup {"gen_request", "request"}
    /\ WantsPage(Top)
    /\ (observe /\ Top.st # "request") => Top.nfetch < MaxFetch
    /\ IF \/ Top.st = "new" /\ ParseFails(Top.endpoint)
          \/ ParseFails(RequestUrl(Top.endpoint, Top.params))
       THEN /\ Raise("ValueError")
            /\ UNCHANGED <<gens, tries, trace>>
       ELSE LET f == GenEnter(Top)
                url == RequestUrl(f.endpoint, f.params)
            IN  \E r \in Answers(url) :
                  /\ trace' = Emit(<<"http", url, r.status>>)
                  /\ IF IsHttpError(r) \/ IsNetworkError(r)
                     THEN IF client_error(r) \/ tries + 1 >= MAX_TRIES
                          THEN /\ Raise("RequestException")
                               /\ tries' = 0
                               /\ gens' = SetTop(f)
                          ELSE /\ tries' = tries + 1
                               /\ gens' = SetTop(f)
                               /\ UNCHANGED <<pc, err>>
                     ELSE IF r.key # f.source_key
                          THEN /\ Raise("KeyError")
                               /\ tries' = 0
                               /\ gens' = SetTop(f)
                          ELSE /\ tries' = 0
                               /\ gens' = SetTop(GenPage(f, r))
                               /\ UNCHANGED <<pc, err>>
    /\ UNCHANGED <<call, catalog, CONFIG, server, observe, State, state0, persisted,
                   selected_streams, si, remaining0, start, max_updated_at, runs,
                   resumed>>

\* transform_contact: the rows of the model have none of the properties it rewrites
transform_contact(contact) == contact

\* lines 241-246
RowTime(row) ==
    IF row.updated_at # NoField
    THEN strptime_with_tz(transform_datetime(row.updated_at))
    ELSE NoTime

\* line 248 without a condition
InRange_all(updated_at, since) == TRUE

\* line 248 with > for >=
InRange_gt(updated_at, since) == updated_at = NoTime \/ updated_at > since

\* line 248 without "not updated_at or"
InRange_dated(updated_at, since) == updated_at # NoTime /\ updated_at >= since

\* line 248
InRange(updated_at, since) == updated_at = NoTime \/ updated_at >= since

\* lines 251-252 without the comparison: the last updated_at is kept
NewMax_last(updated_at, max) == IF updated_at # NoTime THEN updated_at ELSE max

\* lines 251-252
NewMax(updated_at, max) ==
    IF updated_at # NoTime /\ updated_at > max THEN updated_at ELSE max

\* sync_contacts, one turn of the loop of lines 240-252
ContactsRow ==
    /\ pc = "contacts"
    /\ HasRow(Top)
    /\ LET f == GenYield(Top)
           updated_at == RowTime(f.cur)
       IN  /\ gens' = SetTop(f)
           /\ trace' = IF InRange(updated_at, start)
                       THEN Emit(<<"record", "contacts", transform_contact(f.cur)>>)
                       ELSE trace
           /\ max_updated_at' = NewMax(updated_at, max_updated_at)
    /\ UNCHANGED <<call, catalog, CONFIG, server, observe, State, state0, persisted, pc,
                   selected_streams, si, remaining0, start, tries, err, runs, resumed>>

\* sync_contacts, lines 254-258, once the generator is exhausted
ContactsEnd ==
    /\ pc = "contacts"
    /\ Exhausted(Top)
    /\ State' = write_bookmark(State, strftime(max_updated_at))
    /\ write_state(State')
    /\ Return
    /\ UNCHANGED <<call, catalog, CONFIG, server, observe, state0, selected_streams,
                   remaining0, gens, start, max_updated_at, tries, err, runs, resumed>>

\* sync_lists (lines 282-283) and sync_smart_segments (lines 309-310): one row
FullRefreshRow(id) ==
    /\ pc = id
    /\ HasRow(Top)
    /\ gens' = SetTop(GenYield(Top))
    /\ trace' = Emit(<<"record", id, Row(Top.data, Top.idx)>>)
    /\ UNCHANGED <<call, catalog, CONFIG, server, observe, State, state0, persisted, pc,
                   selected_streams, si, remaining0, start, max_updated_at, tries,
                   err, runs, resumed>>

\* ... and the return once the generator is exhausted
FullRefreshEnd(id) ==
    /\ pc = id
    /\ Len(gens) = 1
    /\ Exhausted(Top)
    /\ Return
    /\ UNCHANGED <<call, catalog, CONFIG, server, observe, State, state0, persisted,
                   selected_streams, remaining0, gens, start, max_updated_at, tries,
                   err, trace, runs, resumed>>

ListsRow == FullRefreshRow("lists")

ListsEnd == FullRefreshEnd("lists")

SmartSegmentsRow == FullRefreshRow("smart_segments")

SmartSegmentsEnd == FullRefreshEnd("smart_segments")

\* subrow["contact_id"]
contact_id(row) == <<row.tag, row.id>>

\* sync_smart_segment_contacts, lines 328-330: a segment of the outer loop
SegmentRow ==
    /\ pc = "smart_segments_contacts"
    /\ Len(gens) = 1
    /\ HasRow(Top)
    /\ LET f == GenYield(Top)
       IN  gens' = <<f, NewGen(get_url("smart_segments_contacts", f.cur.segment_id))>>
    /\ UNCHANGED <<call, catalog, CONFIG, server, observe, State, state0, persisted, pc,
                   selected_streams, si, remaining0, start, max_updated_at, tries,
                   err, trace, runs, resumed>>

\* lines 330-334: a contact of the inner loop
SegmentContactRow ==
    /\ pc = "smart_segments_contacts"
    /\ Len(gens) = 2
    /\ HasRow(Top)
    /\ LET f == GenYield(Top)
       IN  /\ gens' = SetTop(f)
           /\ trace' = Emit(<<"record", "smart_segments_contacts",
                              [segment_id |-> gens[1].cur.segment_id,
                               contact_id |-> contact_id(f.cur)]>>)
    /\ UNCHANGED <<call, catalog, CONFIG, server, observe, State, state0, persisted, pc,
                   selected_streams, si, remaining0, start, max_updated_at, tries,
                   err, runs, resumed>>

\* line 330: the inner generator is exhausted, the outer loop goes on
SegmentContactsEnd ==
    /\ pc = "smart_segments_contacts"
    /\ Len(gens) = 2
    /\ Exhausted(Top)
    /\ gens' = <<gens[1]>>
    /\ UNCHANGED <<call, catalog, CONFIG, server, observe, State, state0, persisted, pc,
                   selected_streams, si, remaining0, start, max_updated_at, tries,
                   err, trace, runs, resumed>>

\* line 336
SegmentsEnd == FullRefreshEnd("smart_segments_contacts")

-----------------------------------------------------------------------------
(* Runs *)

\* main, lines 448-456, with the state the previous run's output left: the
\* process has ended, or is killed where it stands, and the tap is run again
NextRun ==
    /\ runs < MaxRuns
    /\ runs' = runs + 1
    /\ resumed' = IF pc \in STREAMS \cup {"sync"} THEN selected_streams[si].id ELSE NoStream
    /\ State' = persisted
    /\ state0' = persisted
    /\ pc' = "do_sync"
    /\ selected_streams' = <<>>
    /\ remaining0' = <<>>
    /\ si' = 0
    /\ gens' = <<>>
    /\ start' = 0
    /\ max_updated_at' = 0
    /\ tries' = 0
    /\ err' = ""
    /\ trace' = <<>>
    /\ UNCHANGED <<call, catalog, CONFIG, server, observe, persisted>>

\* the state main hands to do_sync, and the rest as it is before do_sync runs
InitWith(cat, st, cfg, api, obs) ==
    /\ call = Main
    /\ catalog = cat
    /\ CONFIG = cfg
    /\ server = api
    /\ observe = obs
    /\ State = st
    /\ state0 = st
    /\ persisted = st
    /\ pc = "do_sync"
    /\ selected_streams = <<>>
    /\ remaining0 = <<>>
    /\ si = 0
    /\ gens = <<>>
    /\ start = 0
    /\ max_updated_at = 0
    /\ tries = 0
    /\ err = ""
    /\ trace = <<>>
    /\ runs = 1
    /\ resumed = NoStream

-----------------------------------------------------------------------------
(* Inputs *)

Iso(us) == <<"iso", us>>

Config == [start_date |-> Iso(2000)]

Entry(id, selected) == [id |-> id, selected |-> selected]

EmptyState == [bookmark |-> NoBookmark, currently_syncing |-> NoStream]

\* the order of discover_schemas, and a stream sync has no branch for
CatalogOrder ==
    <<"contacts", "lists", "custom_fields", "smart_segments", "smart_segments_contacts">>

\* the catalogs that keep some of the streams, in that order, each selected or not
RECURSIVE CatalogsFrom(_)
CatalogsFrom(i) ==
    IF i > Len(CatalogOrder) THEN {<<>>}
    ELSE LET rest == CatalogsFrom(i + 1)
         IN  rest \cup {<<Entry(CatalogOrder[i], b)>> \o c : b \in BOOLEAN, c \in rest}

Catalogs == CatalogsFrom(1)

Only(id) == <<Entry(id, TRUE)>>

\* the empty state of a first run, and the states a run may have left
States ==
    {EmptyState}
    \cup [bookmark : {Iso(2500)}, currently_syncing : {NoStream} \cup STREAMS]

Ok(n, more, ts) == Shape(200, n, more, ts)

Failure(status) == Shape(status, 0, FALSE, <<NoField>>)

PageSizes == {0, SmallPage, PER_PAGE}

\* every resource answers with one short page
ApiSmall ==
    Api({Ok(SmallPage, FALSE, <<3, 1>>)}, {Ok(SmallPage, FALSE, <<NoField>>)},
        {Ok(SmallPage, FALSE, <<NoField>>)}, {Ok(1, FALSE, <<NoField>>)})

\* contacts, lists and segments answer with pages of any size, with or without a
\* token, and contacts of any age
ApiPages ==
    Api({Ok(0, FALSE, <<NoField>>), Ok(SmallPage, FALSE, <<3, 2>>),
         Ok(SmallPage, TRUE, <<1, NoField>>), Ok(PER_PAGE, TRUE, <<3, 2>>),
         Ok(PER_PAGE, FALSE, <<1, NoField>>)},
        {Ok(n, FALSE, <<NoField>>) : n \in PageSizes} \cup {Ok(PER_PAGE, TRUE, <<NoField>>)},
        {Ok(n, FALSE, <<NoField>>) : n \in PageSizes},
        {Ok(0, FALSE, <<NoField>>)})

\* there is a segment of each id, and the contacts of a segment come in pages
\* of any size
ApiMembers ==
    Api({Ok(0, FALSE, <<NoField>>)}, {Ok(0, FALSE, <<NoField>>)},
        {Ok(Cardinality(SegIds), FALSE, <<NoField>>)},
        {Ok(0, FALSE, <<NoField>>), Ok(SmallPage, TRUE, <<NoField>>),
         Ok(PER_PAGE, TRUE, <<NoField>>)})

\* requests may fail
ApiFailing ==
    Api({Ok(SmallPage, FALSE, <<3, 1>>), Failure(500), Failure(404)},
        {Ok(SmallPage, FALSE, <<NoField>>), Failure(408), Failure(-1)},
        {Failure(401)}, {Failure(503)})

\* requests for the contacts of a segment may fail
ApiMembersFailing ==
    Api({Ok(0, FALSE, <<NoField>>)}, {Ok(0, FALSE, <<NoField>>)},
        {Ok(Cardinality(SegIds), FALSE, <<NoField>>)},
        {Ok(1, FALSE, <<NoField>>), Failure(403), Failure(503)})

\* a full page of contacts may be followed by a refusal
ApiContactsFailing ==
    Api({Ok(PER_PAGE, TRUE, <<3, 2>>), Failure(404)}, {Ok(0, FALSE, <<NoField>>)},
        {Ok(0, FALSE, <<NoField>>)}, {Ok(0, FALSE, <<NoField>>)})

\* the API holds the same contacts all the time: a full page, of contacts
\* updated at 2, at 3 and never, and a short page after it
ApiSteady ==
    [u \in ReqUrls |->
        {Response(u, IF u = <<"contacts">> THEN Ok(PER_PAGE, TRUE, <<2, NoField, 3>>)
                     ELSE IF u \in ContactUrls THEN Ok(SmallPage, FALSE, <<3, 1>>)
                     ELSE Ok(0, FALSE, <<NoField>>))}]

Init ==
    \/ \E cat \in Catalogs, st \in States : InitWith(cat, st, Config, ApiSmall, TRUE)
    \/ \E b \in {NoBookmark, Iso(2500)} :
          InitWith(Only("contacts"), [EmptyState EXCEPT !.bookmark = b], Config, ApiPages, TRUE)
    \/ \E id \in STREAMS \ {"contacts"} : InitWith(Only(id), EmptyState, Config, ApiPages, TRUE)
    \/ InitWith(Only("smart_segments_contacts"), EmptyState, Config, ApiMembers, TRUE)
    \/ \E id \in STREAMS : InitWith(Only(id), EmptyState, Config, ApiFailing, TRUE)
    \/ InitWith(Only("smart_segments_contacts"), EmptyState, Config, ApiMembersFailing, TRUE)
    \/ \E b \in {NoBookmark, Iso(2500)} :
          InitWith(<<Entry("contacts", TRUE), Entry("lists", TRUE)>>,
                   [EmptyState EXCEPT !.bookmark = b], Config, ApiContactsFailing, TRUE)
    \/ \E b \in {NoBookmark, Iso(2500)} :
          InitWith(Only("contacts"), [EmptyState EXCEPT !.bookmark = b], Config, ApiSteady, TRUE)

\* where in the pagination of a resource a URL stands: 0 without a token
PagePos(u) == IF u[Len(u)] = "b1" THEN 1 ELSE IF u[Len(u)] = "b2" THEN 2 ELSE 0

\* the rows a resource of total records gives on its page at place pos
RowsAt(total, pos) ==
    IF total - PER_PAGE * pos >= PER_PAGE THEN PER_PAGE
    ELSE IF total - PER_PAGE * pos > 0 THEN total - PER_PAGE * pos
    ELSE 0

\* an API that holds a fixed number of records of each resource and answers a
\* URL always with the same page: up to 100 rows, and a token either with every
\* full page (eager) or only when records remain after the page
ApiHolding(contacts, lists, segments, members, eager) ==
    [u \in ReqUrls |->
        LET total == IF u \in ContactUrls THEN contacts
                     ELSE IF u = <<"lists">> THEN lists
                     ELSE IF u = <<"smart_segments">> THEN segments
                     ELSE members
            n == RowsAt(total, PagePos(u))
            more == IF eager THEN n = PER_PAGE /\ PagePos(u) < 2
                    ELSE total > PER_PAGE * (PagePos(u) + 1)
        IN  {Response(u, Ok(n, more, <<3, NoField>>))}]

Counts == {0, SmallPage, PER_PAGE, PER_PAGE + SmallPage}

FullCatalog == [i \in 1..Len(CatalogOrder) |-> Entry(CatalogOrder[i], TRUE)]

\* the runs against an API that holds a fixed set of records, not observed
InitHolding ==
    \E n \in Counts, eager \in BOOLEAN :
      \E api \in {ApiHolding(n, 0, 0, 0, eager), ApiHolding(0, n, 0, 0, eager),
                  ApiHolding(0, 0, n, 0, eager), ApiHolding(0, 0, SmallPage, n, eager)} :
        InitWith(FullCatalog, EmptyState, Config, api, FALSE)

Step ==
    \/ DoSyncStart
    \/ DoSyncMark
    \/ SyncOther
    \/ SyncContactsBegin
    \/ SyncListsBegin
    \/ SyncSmartSegmentsBegin
    \/ SyncSmartSegmentContactsBegin
    \/ GenRequest
    \/ ContactsRow
    \/ ContactsEnd
    \/ ListsRow
    \/ ListsEnd
    \/ SmartSegmentsRow
    \/ SmartSegmentsEnd
    \/ SegmentRow
    \/ SegmentContactRow
    \/ SegmentContactsEnd
    \/ SegmentsEnd
    \/ DoSyncFinal

Next == Step \/ NextRun

Spec == Init /\ [][Next]_vars

\* one run to its end: the program is sequential and takes its next step
SpecHolding == InitHolding /\ [][Step]_vars /\ WF_vars(Step)

-----------------------------------------------------------------------------
(* get_url, gen_request and request called on their own *)

\* gen_request(get_url(endpoint, segment_id="s1")): get_url raises, or hands its
\* URL to gen_request, which returns a generator that has not run yet
CallGetUrl ==
    /\ pc = "call"
    /\ call.fn = "get_url"
    /\ IF InvalidEndpoint(call.endpoint)
       THEN /\ Raise("ValueError")
            /\ UNCHANGED gens
       ELSE /\ gens' = <<NewGen(get_url(call.endpoint, "s1"))>>
            /\ pc' = "done"
            /\ UNCHANGED err
    /\ UNCHANGED <<call, catalog, CONFIG, server, observe, State, state0, persisted,
                   selected_streams, si, remaining0, start, max_updated_at, tries,
                   trace, runs, resumed>>

\* for row in gen_request(url): the generator is created
CallGenRequest ==
    /\ pc = "call"
    /\ call.fn = "gen_request"
    /\ gens' = <<NewGen(call.url)>>
    /\ pc' = "gen_request"
    /\ UNCHANGED <<call, catalog, CONFIG, server, observe, State, state0, persisted,
                   selected_streams, si, remaining0, start, max_updated_at, tries,
                   err, trace, runs, resumed>>

\* ... a row is pulled from it
Pull ==
    /\ pc = "gen_request"
    /\ HasRow(Top)
    /\ gens' = SetTop(GenYield(Top))
    /\ UNCHANGED <<call, catalog, CONFIG, server, observe, State, state0, persisted, pc,
                   selected_streams, si, remaining0, start, max_updated_at, tries,
                   err, trace, runs, resumed>>

\* ... it is exhausted
PullEnd ==
    /\ pc = "gen_request"
    /\ Exhausted(Top)
    /\ pc' = "done"
    /\ UNCHANGED <<call, catalog, CONFIG, server, observe, State, state0, persisted,
                   selected_streams, si, remaining0, gens, start, max_updated_at,
                   tries, err, trace, runs, resumed>>

\* request(url, params): the caller is at line 197 with these arguments
CallRequest ==
    /\ pc = "call"
    /\ call.fn = "request"
    /\ gens' = <<[NewGen(call.url) EXCEPT !.st = "request", !.params = call.params,
                                          !.source_key = KeyOf(call.url)]>>
    /\ pc' = "request"
    /\ UNCHANGED <<call, catalog, CONFIG, server, observe, State, state0, persisted,
                   selected_streams, si, remaining0, start, max_updated_at, tries,
                   err, trace, runs, resumed>>

\* ... request has returned its response
RequestReturn ==
    /\ pc = "request"
    /\ Top.st = "rows"
    /\ pc' = "done"
    /\ UNCHANGED <<call, catalog, CONFIG, server, observe, State, state0, persisted,
                   selected_streams, si, remaining0, gens, start, max_updated_at,
                   tries, err, trace, runs, resumed>>

\* endpoint identifiers: the known ones and others
EndpointNames == ENDPOINTS \cup {"", "segments", "contact"}

\* URLs: of known resources, and others that have no resource name in them
Urls ==
    {<<"contacts">>, <<"lists">>, <<"smart_segments", "s1", "contacts">>,
     <<>>, <<"">>, <<"-">>, <<"-", "">>}

Calls ==
    {[fn |-> "get_url", endpoint |-> e, url |-> <<>>, params |-> NoToken] :
        e \in EndpointNames}
    \cup {[fn |-> "gen_request", endpoint |-> "", url |-> u, params |-> NoToken] :
        u \in Urls}
    \cup {[fn |-> "request", endpoint |-> "", url |-> u, params |-> b] :
        u \in Urls, b \in {NoToken, "b1", "-"}}

InitCalls ==
    \E c \in Calls, api \in {ApiPages, ApiFailing} :
        /\ call = c
        /\ catalog = <<>>
        /\ CONFIG = Config
        /\ server = api
        /\ observe = TRUE
        /\ State = EmptyState /\ state0 = EmptyState /\ persisted = EmptyState
        /\ pc = "call"
        /\ selected_streams = <<>> /\ remaining0 = <<>> /\ si = 0
        /\ gens = <<>>
        /\ start = 0 /\ max_updated_at = 0
        /\ tries = 0
        /\ err = ""
        /\ trace = <<>>
        /\ runs = 1
        /\ resumed = NoStream

StepCalls ==
    \/ CallGetUrl
    \/ CallGenRequest
    \/ CallRequest
    \/ GenRequest
    \/ Pull
    \/ PullEnd
    \/ RequestReturn

SpecCalls == InitCalls /\ [][StepCalls]_vars

-----------------------------------------------------------------------------
(* What the claims speak of *)

\* the rows of a page, in the page's order
Rows(page) == [i \in 1..page.n |-> Row(page, i)]

\* the rows of a sequence of pages, page after page
RECURSIVE Flatten(_)
Flatten(pages) ==
    IF pages = <<>> THEN <<>>
    ELSE Flatten(SubSeq(pages, 1, Len(pages) - 1)) \o Rows(pages[Len(pages)])

RECURSIVE SumSizes(_)
SumSizes(pages) ==
    IF pages = <<>> THEN 0 ELSE pages[1].n + SumSizes(Tail(pages))

\* the rows of the pages a generator has fetched, up to where it stands in the last
Handed(f) ==
    IF f.pages = <<>> THEN <<>>
    ELSE Flatten(SubSeq(f.pages, 1, Len(f.pages) - 1))
         \o SubSeq(Rows(f.pages[Len(f.pages)]), 1, f.idx - 1)

\* the generators that are running
Running == IF pc \in STREAMS THEN 1..Len(gens) ELSE {}

\* C1: a generator yields the rows of the pages it has fetched, every row once
\* and in the order of the pages; it fetches again only after a page of 100 rows,
\* so a short page is the last one; and at its end it has yielded as many rows
\* as the pages hold together
C1_YieldsAllPagesInOrder ==
    \A k \in Running :
        LET f == gens[k]
        IN  /\ f.yielded = Handed(f)
            /\ f.counter = Len(f.yielded)
            /\ f.nfetch = Len(f.pages)
            /\ \A j \in 1..(Len(f.pages) - 1) : f.pages[j].n = 100
            /\ (f.st = "rows" /\ f.idx > f.data.n)
                  => /\ Exhausted(f) <=> f.data.n < 100
                     /\ WantsPage(f) <=> f.data.n >= 100
            /\ Exhausted(f)
                  => /\ f.counter = SumSizes(f.pages)
                     /\ f.yielded = Flatten(f.pages)

\* a generator has fetched two full pages and a short one, and is at its end
C1_Witness ==
    /\ pc = "lists"
    /\ Len(Top.pages) = 3
    /\ Top.pages[1].n = 100 /\ Top.pages[2].n = 100
    /\ Top.pages[3].n = SmallPage
    /\ Exhausted(Top)
    /\ Top.counter = 200 + SmallPage

\* the last HTTP request of this run
LastHttp(tr) ==
    LET I == {i \in 1..Len(tr) : tr[i][1] = "http"}
    IN  tr[CHOOSE i \in I : \A j \in I : j <= i][2]

\* an HTTP request is sent in this step
Sends == Len(trace') = Len(trace) + 1 /\ trace'[Len(trace')][1] = "http"

\* C3: a generator of a contact kind that has fetched a page sends its next
\* request, if it sends one, to its endpoint with the token of that page
\* appended when the page carried a token, and to its endpoint alone when the
\* page carried none, full or not
C3_NextFetchCarriesToken ==
    [][(pc \in STREAMS /\ Top.pages # <<>> /\ HasContact(Top.source) /\ Sends)
          => trace'[Len(trace')][2] =
               IF Top.pages[Len(Top.pages)].bookmark # NoToken
               THEN Append(Top.endpoint, Top.pages[Len(Top.pages)].bookmark)
               ELSE Top.endpoint]_vars

\* contacts: a page came with a token, the next was full and came without, and
\* a third request was sent, without a token
C3_Witness ==
    /\ pc = "contacts"
    /\ Len(Top.pages) = 3
    /\ Top.pages[1].bookmark = "b1"
    /\ Top.pages[2].bookmark = NoToken /\ Top.pages[2].n = 100
    /\ LastHttp(trace) = <<"contacts">>
    /\ \E i \in 1..Len(trace) : trace[i][1] = "http" /\ trace[i][2] = <<"contacts", "b1">>

IsContactRecord(e) == e[1] = "record" /\ e[2] = "contacts"

\* the contacts records of the output, in order
ContactRecords ==
    LET es == SelectSeq(trace, IsContactRecord)
    IN  [i \in 1..Len(es) |-> es[i][3]]

Dated(row) == row.updated_at # NoField

Undated(row) == row.updated_at = NoField

\* the time a row was updated at, in the unit of start (microseconds)
UpdatedUs(row) == row.updated_at * 1000

\* the watermark the run's contacts sync starts from: the bookmark of the state
\* the run was given, or the configured start_date when it has none
Watermark ==
    IF state0.bookmark # NoBookmark THEN state0.bookmark[2] ELSE CONFIG.start_date[2]

NotBelowWatermark(row) == Dated(row) /\ UpdatedUs(row) >= Watermark

\* C4: all through sync_contacts the records written that have an updated_at
\* are the rows yielded so far whose updated_at is at or after start, in the
\* order they were yielded and each once; a suppressed row does not end the scan
C4_EmittedIffNotBelowStart ==
    pc = "contacts" =>
        /\ start = Watermark
        /\ SelectSeq(ContactRecords, Dated)
             = SelectSeq(Top.yielded, NotBelowWatermark)
        /\ Exhausted(Top) => Len(Top.yielded) = SumSizes(Top.pages)

\* the scan has gone over two pages, suppressed rows and written others after them
C4_Witness ==
    /\ pc = "contacts"
    /\ Exhausted(Top)
    /\ Len(Top.pages) >= 2
    /\ \E i, j \in 1..Len(Top.yielded) :
          /\ i < j
          /\ Dated(Top.yielded[i]) /\ ~NotBelowWatermark(Top.yielded[i])
          /\ NotBelowWatermark(Top.yielded[j])
          /\ UpdatedUs(Top.yielded[j]) = Watermark

\* the greatest of since and the updated_at of the dated rows
MaxSeen(rows, since) ==
    LET seen == {since} \cup {UpdatedUs(rows[i]) : i \in {j \in 1..Len(rows) : Dated(rows[j])}}
    IN  CHOOSE m \in seen : \A x \in seen : x <= m

\* sync_contacts has just returned
ContactsDone ==
    /\ pc = "loop"
    /\ si > 1
    /\ selected_streams[si - 1].id = "contacts"

\* C5: when sync_contacts has returned, the bookmark it has persisted is the
\* greatest of the watermark it started from and the updated_at of every row it
\* has seen, written or not
C5_BookmarkIsMaxSeen ==
    ContactsDone =>
        /\ persisted.bookmark = <<"iso", MaxSeen(gens[1].yielded, Watermark)>>
        /\ State.bookmark = persisted.bookmark
        /\ gens[1].yielded = Flatten(gens[1].pages)

\* the bookmark has moved, to an updated_at that was not the last one seen, and
\* rows older than the watermark were seen
C5_Witness ==
    /\ ContactsDone
    /\ state0.bookmark = <<"iso", 2500>>
    /\ persisted.bookmark = <<"iso", 3000>>
    /\ gens[1].yielded[Len(gens[1].yielded)].updated_at = 2

\* C6: a row without updated_at is written whatever start is, and
\* max_updated_at is after it what it was before
C6_UndatedAlwaysEmitted ==
    [][(pc = "contacts" /\ HasRow(Top) /\ Undated(Row(Top.data, Top.idx)) /\ gens' # gens
        /\ runs' = runs)
          => /\ trace' = Append(trace, <<"record", "contacts", Row(Top.data, Top.idx)>>)
             /\ max_updated_at' = max_updated_at]_vars

\* a row without updated_at has been written under a watermark later than
\* every updated_at the API has
C6_Witness ==
    /\ pc = "contacts"
    /\ start = 2500
    /\ Top.idx > 1
    /\ Undated(Top.cur)
    /\ trace[Len(trace)] = <<"record", "contacts", Top.cur>>
    /\ max_updated_at = 2500

\* the bookmark of a state as a time, below every time when the state has none
BookmarkUs(st) == IF st.bookmark = NoBookmark THEN -1 ELSE st.bookmark[2]

\* C7: every state a run writes, and so the state the next run starts from,
\* carries a contacts.updated_at bookmark that is not before the bookmark of the
\* state the run started from
C7_BookmarkNeverDecreases ==
    /\ BookmarkUs(persisted) >= BookmarkUs(state0)
    /\ BookmarkUs(State) >= BookmarkUs(state0)
    /\ \A i \in 1..Len(trace) :
          trace[i][1] = "state" => BookmarkUs(trace[i][2]) >= BookmarkUs(state0)
    /\ state0.bookmark # NoBookmark => persisted.bookmark # NoBookmark

\* a second run, started from a state with a bookmark, has moved the bookmark on
C7_Witness ==
    /\ runs = 2
    /\ state0.bookmark = <<"iso", 2500>>
    /\ persisted.bookmark = <<"iso", 3000>>
    /\ \E i \in 1..Len(gens[1].yielded) : gens[1].yielded[i].updated_at = 2

\* the stream the state given to the run names as currently syncing
Named == state0.currently_syncing

\* the first place of a stream in the catalog, 0 when it is not there
Position(id) ==
    LET I == {i \in 1..Len(catalog) : catalog[i].id = id}
    IN  IF I = {} THEN 0 ELSE CHOOSE i \in I : \A j \in I : i <= j

IsStateMessage(e) == e[1] = "state"

\* the states written in this run, in order
Written == SelectSeq(trace, IsStateMessage)

\* the streams do_sync has marked as currently syncing, in order
RECURSIVE MarkedIn(_)
MarkedIn(sts) ==
    IF sts = <<>> THEN <<>>
    ELSE LET m == sts[Len(sts)][2].currently_syncing
             front == MarkedIn(SubSeq(sts, 1, Len(sts) - 1))
         IN  IF m # NoStream /\ (front = <<>> \/ front[Len(front)] # m)
             THEN Append(front, m)
             ELSE front

Marked == MarkedIn(Written)

\* the selected streams of the catalog from place k on
SelectedFrom(k) ==
    LET I == {i \in k..Len(catalog) : catalog[i].selected}
        f[i \in 0..Len(catalog)] ==
            IF i = 0 THEN <<>>
            ELSE IF i \in I THEN Append(f[i - 1], catalog[i].id) ELSE f[i - 1]
    IN  f[Len(catalog)]

IsPrefix(a, b) == Len(a) <= Len(b) /\ a = SubSeq(b, 1, Len(a))

\* do_sync has got past get_streams_to_sync
Resolved == pc # "do_sync" /\ err # "UnknownStream"

\* C8: with a named stream that is in the catalog, do_sync goes through the
\* catalog from the named stream on: the streams it syncs are the selected ones
\* among these, in catalog order, and none that precedes the named stream; with
\* no named stream it goes through the catalog from its first stream
C8_ResumesAtNamedStream ==
    (Resolved /\ (Named = NoStream \/ Position(Named) > 0)) =>
        LET k == IF Named = NoStream THEN 1 ELSE Position(Named)
            marked == Marked
        IN  /\ remaining0 = SubSeq(catalog, k, Len(catalog))
            /\ IsPrefix(marked, SelectedFrom(k))
            /\ \A i \in 1..(k - 1) :
                  \A j \in 1..Len(marked) : marked[j] # catalog[i].id
            /\ pc = "done" => marked = SelectedFrom(k)

\* the run of section 8: resumed at lists, contacts skipped
C8_Witness ==
    /\ catalog = <<Entry("contacts", TRUE), Entry("lists", TRUE),
                   Entry("smart_segments", TRUE), Entry("smart_segments_contacts", TRUE)>>
    /\ runs = 1
    /\ Named = "lists"
    /\ pc = "done"
    /\ Marked = <<"lists", "smart_segments", "smart_segments_contacts">>

\* C9: with a named stream that is not in the catalog do_sync fails with the
\* unknown-stream error before it has sent a request, written a record or
\* persisted a state; and it fails with that error in no other case
C9_UnknownStreamOnlyWhenAbsent ==
    /\ (pc # "do_sync" /\ Named # NoStream /\ Position(Named) = 0)
          => /\ pc = "failed" /\ err = "UnknownStream"
             /\ trace = <<>>
             /\ persisted = state0
    /\ err = "UnknownStream" => (Named # NoStream /\ Position(Named) = 0)

\* the first half of C9 alone
C9_FailsFastWhenAbsent ==
    (pc # "do_sync" /\ Named # NoStream /\ Position(Named) = 0)
        => /\ pc = "failed" /\ err = "UnknownStream"
           /\ trace = <<>>
           /\ persisted = state0

\* the marker of the last state written in this run ("" when none was)
LastMarker ==
    IF Written = <<>> THEN "" ELSE Written[Len(Written)][2].currently_syncing

\* the streams whose sync sends requests to a URL
StreamsOf(url) ==
    IF url[1] = "contacts" THEN {"contacts"}
    ELSE IF url[1] = "lists" THEN {"lists"}
    ELSE {"smart_segments", "smart_segments_contacts"}

\* the sync of a stream is under way
InSync == pc \in STREAMS \cup {"sync"}

\* C10: all through the sync of a stream s the last state persisted names s;
\* whenever a request has just been sent or a schema or record written, the
\* last state written before it names the stream it belongs to; and a run
\* restarted after a kill during the sync of s syncs s first
C10_MarkerPersistedBeforeSync ==
    LET last == LastMarker
    IN  /\ InSync => /\ persisted.currently_syncing = selected_streams[si].id
                     /\ last = selected_streams[si].id
        /\ trace # <<>> =>
              LET e == trace[Len(trace)]
              IN  /\ e[1] \in {"schema", "record"} => last = e[2]
                  /\ e[1] = "http" => last \in StreamsOf(e[2])
        /\ (runs > 1 /\ resumed # NoStream /\ pc # "do_sync")
              => /\ err # "UnknownStream"
                 /\ selected_streams # <<>>
                 /\ selected_streams[1].id = resumed
                 /\ LET marked == Marked
                    IN  marked # <<>> => marked[1] = resumed

\* killed during the sync of lists, after contacts and before the segments, the
\* tap run again is syncing lists
C10_Witness ==
    /\ runs = 2
    /\ resumed = "lists"
    /\ pc = "lists"
    /\ Len(catalog) >= 3
    /\ catalog[1] = Entry("contacts", TRUE)
    /\ state0.currently_syncing = "lists"
    /\ \E i \in 1..Len(trace) : trace[i][1] = "record"

\* C2: against an API that holds a finite set of records and answers a request
\* by its URL alone, every pagination comes to its end, so the run ends
C2_PaginationTerminates == <>(pc \in {"done", "failed"})

\* the ids of a sequence of catalog entries
Ids(streams) == [i \in 1..Len(streams) |-> streams[i].id]

\* C11: a state with the marker cleared is written in a run only as the run's
\* last message, when every selected stream has been marked and its sync has
\* returned; and a run that has synced its selected streams to the end leaves a
\* cleared marker in the last state it has written
C11_MarkerClearedOnlyAtEnd ==
    LET written == Written
    IN  /\ \A i \in 1..Len(written) :
              written[i][2].currently_syncing = NoStream
                 => /\ i = Len(written)
                    /\ trace[Len(trace)] = written[i]
                    /\ pc = "done"
                    /\ si > Len(selected_streams)
                    /\ MarkedIn(written) = Ids(selected_streams)
        /\ (pc = "done" /\ selected_streams # <<>>)
              => /\ written # <<>>
                 /\ written[Len(written)][2].currently_syncing = NoStream
                 /\ persisted.currently_syncing = NoStream

\* three streams have been synced, each marked in its turn, and the marker cleared
C11_Witness ==
    /\ pc = "done"
    /\ Len(selected_streams) = 3
    /\ Len(Marked) = 3
    /\ LastMarker = NoStream
    /\ \E i \in 1..Len(trace) : trace[i][1] = "record"

\* the place in the catalog do_sync resumes at
ResumePoint == IF Named = NoStream THEN 1 ELSE Position(Named)

\* there is a resume point and no stream at or after it is selected
NoneSelected ==
    /\ Named = NoStream \/ Position(Named) > 0
    /\ SelectedFrom(ResumePoint) = <<>>

\* do_sync has returned without error and without having done anything
NoWork ==
    /\ pc = "done" /\ err = ""
    /\ trace = <<>>
    /\ State = state0 /\ persisted = state0

\* C12: when no stream at or after the resume point is selected, do_sync
\* returns without error, sends no request, writes no schema, record or state,
\* and leaves the state as it was given
C12_NoSelectionIsNoOp ==
    (pc # "do_sync" /\ NoneSelected) => NoWork

\* C12 for the catalogs that have a stream at the resume point
C12_NoSelectionAmongSomeIsNoOp ==
    (pc # "do_sync" /\ NoneSelected /\ catalog # <<>>) => NoWork

\* resumed at a stream that is not selected, with a selected one before it only
C12_Witness ==
    /\ pc = "done"
    /\ Named = "lists"
    /\ state0.bookmark # NoBookmark
    /\ catalog = <<Entry("contacts", TRUE), Entry("lists", FALSE),
                   Entry("smart_segments", FALSE)>>
    /\ NoWork

\* what the claims call the outcome of an HTTP attempt, by its status
\* (a negative status stands for a network failure, without a response)
AttemptFailed(status) == status < 0 \/ (status >= 400 /\ status < 600)

NonRetryable(status) == status >= 400 /\ status < 500 /\ status # 408

IsFailedHttp(e) == e[1] = "http" /\ AttemptFailed(e[3])

\* the number of failed HTTP attempts in a row that end at place k of the log
RECURSIVE FailedRun(_)
FailedRun(k) ==
    IF k = 0 THEN 0
    ELSE IF IsFailedHttp(trace[k]) THEN 1 + FailedRun(k - 1)
    ELSE 0

\* C13: an HTTP attempt is the first of its fetch or follows a failed attempt
\* of the same fetch, to the same URL, and it is at most the 5th; an attempt
\* that succeeds hands its response to the generator; after a failure that is
\* not a non-retryable client error and not the 5th, the fetch is about to
\* attempt again, and nothing but that attempt comes next; the 5th failure ends
\* the fetch with the error
C13_AtMostFiveAttempts ==
    [][/\ Sends =>
            LET e == trace'[Len(trace')]
                attempt == FailedRun(Len(trace)) + 1
            IN  /\ attempt <= 5
                /\ attempt = tries + 1
                /\ attempt > 1 => e[2] = trace[Len(trace)][2]
                /\ ~AttemptFailed(e[3])
                      => /\ pc' = pc /\ tries' = 0
                         /\ Top'.data \in server[e[2]]
                         /\ Top'.data.status = e[3]
                         /\ Top'.st = "rows" /\ Top'.idx = 1
                /\ (AttemptFailed(e[3]) /\ ~NonRetryable(e[3]) /\ attempt < 5)
                      => /\ pc' = pc /\ tries' = attempt
                         /\ Top'.st = "request" /\ WantsPage(Top')
                         /\ Top'.params = Top.params
                /\ (AttemptFailed(e[3]) /\ ~NonRetryable(e[3]) /\ attempt = 5)
                      => pc' = "failed" /\ err' = "RequestException"
       /\ (trace' # trace /\ runs' = runs /\ FailedRun(Len(trace)) > 0) => Sends]_vars

\* a fetch has failed five times, with timeouts and network failures, and the
\* run has ended with the error
C13_Witness ==
    /\ pc = "failed" /\ err = "RequestException"
    /\ FailedRun(Len(trace)) = 5
    /\ trace[Len(trace)][3] = 408
    /\ trace[Len(trace) - 1][3] = -1
    /\ \A j \in 0..4 : trace[Len(trace) - j][2] = <<"lists">>

C14_TimeoutRetried ==
    /\ pc = "lists"
    /\ tries = 2
    /\ trace[Len(trace)][3] = 408
    /\ trace[Len(trace) - 1][3] = 408

\* a URL has no resource name in it: none of its segments begins with a word
Unmappable(url) == \A i \in 1..Len(url) : url[i] \in {"", "-"}

\* the call has failed with the error, or has not run yet, and nothing has been
\* sent or yielded
FailedBeforeRequest ==
    /\ trace = <<>>
    /\ \A k \in 1..Len(gens) : gens[k].yielded = <<>> /\ gens[k].nfetch = 0
    /\ \/ pc = "failed" /\ err = "ValueError"
       \/ pc = "call"
       \/ pc \in {"gen_request", "request"} /\ tries = 0 /\ WantsPage(Top)

\* C15: get_url given an identifier that is not a known endpoint, gen_request
\* given a URL without a resource name, and request about to send such a URL
\* fail with ValueError, and no request is sent and no row yielded before that
C15_BadEndpointFailsBeforeRequest ==
    /\ (call.fn = "get_url"
          /\ call.endpoint \notin {"contacts", "custom_fields", "lists",
                                   "smart_segments", "smart_segments_contacts"})
          => FailedBeforeRequest /\ pc # "gen_request" /\ gens = <<>>
    /\ (call.fn = "gen_request" /\ Unmappable(call.url)) => FailedBeforeRequest
    /\ (call.fn = "request" /\ Unmappable(RequestUrl(call.url, call.params)))
          => FailedBeforeRequest

\* gen_request, given a URL of two segments neither of which names a resource,
\* has raised on the first pull
C15_Witness ==
    /\ call.fn = "gen_request"
    /\ call.url = <<"-", "">>
    /\ pc = "failed" /\ err = "ValueError"
    /\ Len(gens) = 1 /\ Top.st = "new"
    /\ trace = <<>>

\* get_url has raised for an identifier that is close to a known one
C15_GetUrlWitness ==
    /\ call.fn = "get_url" /\ call.endpoint = "segments"
    /\ pc = "failed" /\ err = "ValueError"

\* the last page a generator has fetched came with a token and under 100 rows
ShortPageWithToken(f) ==
    /\ f.pages # <<>>
    /\ f.pages[Len(f.pages)].n < 100
    /\ f.pages[Len(f.pages)].bookmark # NoToken

\* C16: a generator whose last page came with a token and fewer than 100 rows
\* sends no further request; it yields the rows of that page and is then at
\* its end
C16_ShortPageEndsDespiteToken ==
    [][(pc \in STREAMS /\ ShortPageWithToken(Top))
          => /\ ~Sends
             /\ ~WantsPage(Top)
             /\ Top.data = Top.pages[Len(Top.pages)]
             /\ Top.idx > Top.data.n
                   => /\ Exhausted(Top)
                      /\ Top.yielded = Flatten(Top.pages)
                      /\ Top.nfetch = Len(Top.pages)
             /\ (Len(gens') = Len(gens) /\ runs' = runs /\ pc' = pc)
                   => Top'.pages = Top.pages]_vars

\* contacts: a full page, then a short page with a token, and the generator is
\* at its end with the rows of both yielded
C16_Witness ==
    /\ pc = "contacts"
    /\ Len(Top.pages) = 2
    /\ Top.pages[1].n = 100
    /\ Top.pages[2].n = SmallPage /\ Top.pages[2].bookmark # NoToken
    /\ Exhausted(Top)
    /\ Len(Top.yielded) = 100 + SmallPage

\* the run has been ended by a failed fetch of the contacts sync
ContactsAborted ==
    /\ pc = "failed" /\ err = "RequestException"
    /\ selected_streams[si].id = "contacts"

\* C17: when a failed fetch has ended the contacts sync, every state the run
\* has written carries the bookmark the run started with, and the last one
\* names contacts as currently syncing; the run started next from that state
\* resumes at contacts with the watermark the aborted sync had
C17_AbortKeepsBookmark ==
    [][ContactsAborted
          => /\ persisted.bookmark = state0.bookmark
             /\ persisted.currently_syncing = "contacts"
             /\ \A i \in 1..Len(Written) : Written[i][2].bookmark = state0.bookmark
             /\ start = Watermark
             /\ runs' = runs + 1
                   => /\ state0' = persisted
                      /\ state0'.currently_syncing = "contacts"
                      /\ Watermark' = start]_vars

\* the contacts sync has been aborted after it had seen contacts newer than the
\* bookmark it started with
C17_Witness ==
    /\ ContactsAborted
    /\ state0.bookmark = <<"iso", 2500>>
    /\ max_updated_at = 3000
    /\ Len(Top.pages) >= 1
    /\ \E i \in 1..Len(trace) : trace[i][1] = "record"
    /\ persisted.bookmark = <<"iso", 2500>>

\* the segment-membership sync is under way
InMembers == pc = "smart_segments_contacts"

\* a record is written in this step
Writes == Len(trace') = Len(trace) + 1 /\ trace'[Len(trace')][1] = "record"

\* C18: in the segment-membership sync the outer pagination is asked for its
\* next segment only between inner paginations and hands them out in its own
\* order; the inner pagination of a segment starts without a token; a request
\* of the outer pagination goes to the segments URL without a token, a request
\* of an inner one to the contacts URL of the segment in hand, with no token or
\* with the token of the last page of that same pagination; and a record pairs
\* the segment in hand with a contact from a page of that segment
C18_MembersPairedWithTheirSegment ==
    [][InMembers =>
         /\ Len(gens') = Len(gens) + 1
               => /\ gens'[1].cur = Row(gens[1].data, gens[1].idx)
                  /\ gens'[1].yielded = Append(gens[1].yielded, gens'[1].cur)
                  /\ gens'[2].endpoint
                        = <<"smart_segments", gens'[1].cur.segment_id, "contacts">>
                  /\ gens'[2].params = NoToken
                  /\ gens'[2].pages = <<>>
         /\ (Sends /\ Len(gens) = 1)
               => trace'[Len(trace')][2] = <<"smart_segments">>
         /\ (Sends /\ Len(gens) = 2)
               => LET url == trace'[Len(trace')][2]
                  IN  /\ SubSeq(url, 1, 3)
                           = <<"smart_segments", gens[1].cur.segment_id, "contacts">>
                      /\ Len(url) \in {3, 4}
                      /\ Len(url) = 4
                            => /\ Top.pages # <<>>
                               /\ url[4] = Top.pages[Len(Top.pages)].bookmark
                               /\ Top.pages[Len(Top.pages)].tag = gens[1].cur.segment_id
                      /\ gens'[1] = gens[1]
         /\ Writes
               => LET rec == trace'[Len(trace')][3]
                  IN  /\ Len(gens) = 2
                      /\ rec.segment_id = gens[1].cur.segment_id
                      /\ rec.contact_id[1] = rec.segment_id
                      /\ rec.contact_id[2] = Top.idx
                      /\ Top.data.tag = rec.segment_id
                      /\ gens'[1] = gens[1]]_vars

\* the contacts of s1 came in two pages, the second fetched with the token of
\* the first; a contact of s2, the next segment, has been written
C18_Witness ==
    /\ InMembers
    /\ Len(gens) = 2
    /\ gens[1].cur.segment_id = "s2"
    /\ Len(Top.pages) = 1
    /\ trace[Len(trace)][1] = "record"
    /\ trace[Len(trace)][3].segment_id = "s2"
    /\ \E i \in 1..Len(trace) :
          /\ trace[i][1] = "http"
          /\ trace[i][2] = <<"smart_segments", "s1", "contacts", "b1">>
    /\ \E i \in 1..Len(trace) :
          trace[i][1] = "record" /\ trace[i][3].segment_id = "s1"

\* the API answers every request for contacts in one way only, run after run
Steady == \A u \in ContactUrls : Cardinality(server[u]) = 1

\* no contact the sync has seen was updated after the bookmark it started with:
\* the bookmark is one a completed sync over these contacts has written
BookmarkCoversData ==
    /\ state0.bookmark # NoBookmark
    /\ \A i \in 1..Len(gens[1].yielded) :
          Dated(gens[1].yielded[i])
             => UpdatedUs(gens[1].yielded[i]) <= BookmarkUs(state0)

AtBookmarkOrUndated(row) == Undated(row) \/ UpdatedUs(row) = BookmarkUs(state0)

\* C19: a contacts sync run again from the state a completed contacts sync
\* over the same contacts has persisted writes the bookmark it was given, and
\* its records are the contacts updated at the bookmark and the contacts
\* without updated_at, in the order of the pages; none updated before the
\* bookmark is among them
C19_RerunEmitsOnlyAtBookmark ==
    (runs > 1 /\ Steady /\ ContactsDone /\ BookmarkCoversData)
        => /\ persisted.bookmark = state0.bookmark
           /\ gens[1].yielded = Flatten(gens[1].pages)
           /\ ContactRecords = SelectSeq(gens[1].yielded, AtBookmarkOrUndated)
           /\ \A i \in 1..Len(ContactRecords) :
                 Dated(ContactRecords[i])
                    => UpdatedUs(ContactRecords[i]) >= BookmarkUs(state0)

\* the second run, over a full page and a short one, started from the bookmark
\* of the first, has written contacts updated at the bookmark and contacts
\* without updated_at, and kept out those updated before
C19_Witness ==
    /\ runs = 2 /\ Steady /\ ContactsDone /\ BookmarkCoversData
    /\ state0.bookmark = <<"iso", 3000>>
    /\ persisted.bookmark = <<"iso", 3000>>
    /\ Len(gens[1].pages) = 2
    /\ \E i \in 1..Len(gens[1].yielded) : gens[1].yielded[i].updated_at = 2
    /\ \E i \in 1..Len(gens[1].yielded) : gens[1].yielded[i].updated_at = 1
    /\ \E i \in 1..Len(ContactRecords) : Undated(ContactRecords[i])
    /\ \E i \in 1..Len(ContactRecords) : ContactRecords[i].updated_at = 3
    /\ Len(ContactRecords) < Len(gens[1].yielded)

FullRefresh == {"lists", "smart_segments", "smart_segments_contacts"}

\* sync has been called for a full-refresh stream and has not returned
InFullRefresh ==
    \/ pc \in FullRefresh
    \/ pc = "sync" /\ selected_streams[si].id \in FullRefresh

\* a state message is written in this step
WritesState == Len(trace') = Len(trace) + 1 /\ trace'[Len(trace')][1] = "state"

\* C20: from the call of sync for a full-refresh stream to its return the state
\* stays as it is and no state is written or persisted; when do_sync marks a
\* stream, the state it writes differs from the state before in the marker
\* only; and a step of a run that changes the bookmark, in the state or in what
\* is persisted, is a step of the contacts sync
C20_FullRefreshKeepsState ==
    [][runs' = runs =>
         /\ InFullRefresh
               => /\ State' = State
                  /\ persisted' = persisted
                  /\ ~WritesState
         /\ (pc = "loop" /\ pc' = "sync")
               => /\ State' = [State EXCEPT !.currently_syncing = selected_streams[si].id]
                  /\ persisted' = State'
         /\ (State'.bookmark # State.bookmark \/ persisted'.bookmark # persisted.bookmark)
               => pc = "contacts"]_vars

\* lists has been synced in a run that was given a bookmark: records were
\* written, and the state persisted is the one given but for the marker
C20_Witness ==
    /\ pc = "loop"
    /\ si > 1
    /\ selected_streams[si - 1].id = "lists"
    /\ state0 = [bookmark |-> <<"iso", 2500>>, currently_syncing |-> "lists"]
    /\ persisted = state0
    /\ State = state0
    /\ trace[Len(trace)][1] = "record"
    /\ trace[Len(trace)][2] = "lists"
    /\ Len(Written) = 1

====
